---- MODULE Spec2Model ----
(***************************************************************************)
(* A model of the btsnoop decoder: the container parser (Btsnoop::parse,   *)
(* Header::parse, Packet::parse, PacketDescription::parse), the datalink   *)
(* type mapping, the packet flag decoders, the UART dispatcher             *)
(* (parse_uart_packet) and the HCI command decoder (hci::Command::from).   *)
(*                                                                         *)
(* Bytes are naturals in 0..255.  A u32 is kept as two 16-bit limbs,       *)
(* [hi, lo] with value hi * 65536 + lo, so that every u32 up to u32::MAX   *)
(* is represented exactly.  An i64 is kept as its two's complement bit     *)
(* pattern, two u32 words [hi, lo].                                        *)
(***************************************************************************)
EXTENDS Integers, Sequences, FiniteSets, TLC

VARIABLES
    input,      \* what the byte source was built from (never read by the decoder)
    src,        \* the bytes the reader holds
    fault,      \* <<>>, or <<[at, kind]>>: the reader fails with `kind` at offset `at`
    pos,        \* number of bytes the reader has handed out
    pc,         \* position of the running operation
    header,     \* Btsnoop::parse's local `header`: <<>> or <<Header>>
    packets,    \* Btsnoop::parse's local `packets`
    starts,     \* reader offset at which each pushed packet's parse began
    calls,      \* number of Packet::parse calls made
    ret,        \* value returned by Btsnoop::parse
    arg,        \* argument of the function under study (pure-function specifications)
    out         \* its result

vars == <<input, src, fault, pos, pc, header, packets, starts, calls, ret, arg, out>>

(***************************************************************************)
(* Bounds of the model.                                                    *)
(***************************************************************************)
MaxRecords == 2
MaxParams == 2

(***************************************************************************)
(* Fixed-width integers.                                                   *)
(***************************************************************************)
Byte == 0..255

U32(h, l) == [hi |-> h, lo |-> l]

U32Of(n) == U32(n \div 65536, n % 65536)

U32Le(a, b) == a.hi < b.hi \/ (a.hi = b.hi /\ a.lo <= b.lo)

\* byteorder: BigEndian::read_u32
BigEndianU32(b) == U32(b[1] * 256 + b[2], b[3] * 256 + b[4])

\* byteorder: BigEndian::read_i64 (the bit pattern, most significant word first)
BigEndianI64(b) == [hi |-> BigEndianU32(SubSeq(b, 1, 4)), lo |-> BigEndianU32(SubSeq(b, 5, 8))]

\* byteorder: LittleEndian::read_u16
LittleEndianU16(b) == b[1] + 256 * b[2]

RECURSIVE BitAnd(_, _)
BitAnd(a, b) ==
    IF a = 0 \/ b = 0 THEN 0
    ELSE (a % 2) * (b % 2) + 2 * BitAnd(a \div 2, b \div 2)

RECURSIVE Shr(_, _)
Shr(a, n) == IF n = 0 THEN a ELSE Shr(a \div 2, n - 1)

\* `as u8`: the low octet
AsU8(n) == n % 256

(***************************************************************************)
(* The reader.                                                             *)
(***************************************************************************)
UnexpectedEof == "UnexpectedEof"
InvalidData == "InvalidData"

Err(k, p) == [ok |-> FALSE, kind |-> k, pos |-> p]
Ok(v, p) == [ok |-> TRUE, val |-> v, pos |-> p]

\* Read::read_exact of n bytes at offset p: the reader's own failure if it lies
\* in the range, UnexpectedEof if the source ends first, the bytes otherwise.
ReadExact(p, n) ==
    IF fault # <<>> /\ fault[1].at >= p /\ fault[1].at < p + n /\ fault[1].at < Len(src)
    THEN Err(fault[1].kind, fault[1].at)
    ELSE IF p + n > Len(src)
    THEN Err(UnexpectedEof, Len(src))
    ELSE Ok(SubSeq(src, p + 1, p + n), p + n)

ReadU32(p) ==
    LET r == ReadExact(p, 4)
    IN  IF r.ok THEN Ok(BigEndianU32(r.val), r.pos) ELSE r

ReadI64(p) ==
    LET r == ReadExact(p, 8)
    IN  IF r.ok THEN Ok(BigEndianI64(r.val), r.pos) ELSE r

\* `included_length as usize`: a length of 65536 or more exceeds every source
\* of this model, and is kept as one more than the bytes the source holds.
AsUsize(len) == IF len.hi > 0 THEN Len(src) + 1 ELSE len.lo

(***************************************************************************)
(* Header.                                                                 *)
(***************************************************************************)
IDENTIFICATION_PATTERN == <<98, 116, 115, 110, 111, 111, 112, 0>>

\* A comparison that leaves out the trailing NUL octet.
IdentificationPatternTryFrom_NoNul(value) ==
    IF SubSeq(value, 1, 7) = SubSeq(IDENTIFICATION_PATTERN, 1, 7)
    THEN [ok |-> TRUE]
    ELSE [ok |-> FALSE, kind |-> InvalidData]

IdentificationPatternTryFrom(value) ==
    IF value = IDENTIFICATION_PATTERN
    THEN [ok |-> TRUE]
    ELSE [ok |-> FALSE, kind |-> InvalidData]

\* A Reserved range that stops short of 1000.
DatalinkTypeFrom_Exclusive(value) ==
    IF U32Le(U32Of(0), value) /\ U32Le(value, U32Of(999))
    THEN [tag |-> "Reserved", raw |-> value]
    ELSE IF value = U32Of(1001) THEN [tag |-> "UnencapsulatedHci"]
    ELSE IF value = U32Of(1002) THEN [tag |-> "Uart"]
    ELSE IF value = U32Of(1003) THEN [tag |-> "Bscp"]
    ELSE IF value = U32Of(1004) THEN [tag |-> "Serial"]
    ELSE [tag |-> "Unassigned", raw |-> value]

DatalinkTypeFrom(value) ==
    IF U32Le(U32Of(0), value) /\ U32Le(value, U32Of(1000))
    THEN [tag |-> "Reserved", raw |-> value]
    ELSE IF value = U32Of(1001) THEN [tag |-> "UnencapsulatedHci"]
    ELSE IF value = U32Of(1002) THEN [tag |-> "Uart"]
    ELSE IF value = U32Of(1003) THEN [tag |-> "Bscp"]
    ELSE IF value = U32Of(1004) THEN [tag |-> "Serial"]
    ELSE [tag |-> "Unassigned", raw |-> value]

\* Each read starts where the one before it ended: 8 bytes, then 4, then 4.
HeaderParse(p) ==
    LET id_pat == ReadExact(p, 8)
        identification_pattern == IdentificationPatternTryFrom(id_pat.val)
        version == ReadU32(p + 8)
        datalink_type == ReadU32(p + 12)
    IN  IF ~id_pat.ok THEN id_pat
        ELSE IF ~identification_pattern.ok
        THEN Err(identification_pattern.kind, id_pat.pos)
        ELSE IF ~version.ok THEN version
        ELSE IF ~datalink_type.ok THEN datalink_type
        ELSE Ok([version |-> version.val,
                 datalink_type |-> DatalinkTypeFrom(datalink_type.val)],
                datalink_type.pos)

(***************************************************************************)
(* Packet records.                                                         *)
(***************************************************************************)
\* Each read starts where the one before it ended: four u32, then an i64.
PacketDescriptionParse(p) ==
    LET original_length == ReadU32(p)
        included_length == ReadU32(p + 4)
        flags == ReadU32(p + 8)
        cumulative_drops == ReadU32(p + 12)
        timestamp == ReadI64(p + 16)
    IN  IF ~original_length.ok THEN original_length
        ELSE IF ~included_length.ok THEN included_length
        ELSE IF ~flags.ok THEN flags
        ELSE IF ~cumulative_drops.ok THEN cumulative_drops
        ELSE IF ~timestamp.ok THEN timestamp
        ELSE Ok([original_length |-> original_length.val,
                 included_length |-> included_length.val,
                 flags |-> flags.val,
                 cumulative_drops |-> cumulative_drops.val,
                 timestamp |-> timestamp.val],
                timestamp.pos)

\* A data block sized by original_length.
PacketParse_OriginalLength(p) ==
    LET description == PacketDescriptionParse(p)
    IN  IF ~description.ok THEN description
        ELSE LET data == ReadExact(p + 24, AsUsize(description.val.original_length))
        IN  IF ~data.ok THEN data
        ELSE Ok([description |-> description.val, data |-> data.val], data.pos)

PacketParse(p) ==
    LET description == PacketDescriptionParse(p)
    IN  IF ~description.ok THEN description
        ELSE LET data == ReadExact(p + 24, AsUsize(description.val.included_length))
        IN  IF ~data.ok THEN data
        ELSE Ok([description |-> description.val, data |-> data.val], data.pos)

(***************************************************************************)
(* Btsnoop::parse, one step per call it makes on the reader.               *)
(***************************************************************************)
NoRet == [tag |-> "None"]
RetOk(h, ps) == [tag |-> "Ok", header |-> h, packets |-> ps]
RetErr(k) == [tag |-> "Err", kind |-> k]

\* A loop that no failure ends with success.
IsBreak_Never(kind) == FALSE

\* A loop that every failure ends with success.
IsBreak_Any(kind) == TRUE

\* A header parse whose end-of-source is taken for an empty log.
HeaderFailure_EofIsEmpty(kind) ==
    IF kind = UnexpectedEof THEN RetOk(<<>>, <<>>) ELSE RetErr(kind)

\* the guard of the match arm that ends the loop
IsBreak(kind) == kind = UnexpectedEof

\* the `?` on Header::parse: the failure is returned as it is
HeaderFailure(kind) == RetErr(kind)

\* let header = Header::parse(reader)?;
ParseHeader ==
    /\ pc = "header"
    /\ LET h == HeaderParse(pos)
       IN  /\ pos' = h.pos
           /\ IF h.ok
              THEN /\ header' = <<h.val>>
                   /\ pc' = "loop"
                   /\ ret' = ret
              ELSE /\ header' = header
                   /\ pc' = "done"
                   /\ ret' = HeaderFailure(h.kind)
    /\ UNCHANGED <<input, src, fault, packets, starts, calls, arg, out>>

\* Ok(packet) => packets.push(packet)
LoopPush ==
    /\ pc = "loop"
    /\ LET packet == PacketParse(pos)
       IN  /\ packet.ok
           /\ packets' = Append(packets, packet.val)
           /\ starts' = Append(starts, pos)
           /\ pos' = packet.pos
    /\ calls' = calls + 1
    /\ UNCHANGED <<input, src, fault, pc, header, ret, arg, out>>

\* Err(ref e) if e.kind() == io::ErrorKind::UnexpectedEof => break, then Ok(Self {..})
LoopBreak ==
    /\ pc = "loop"
    /\ LET packet == PacketParse(pos)
       IN  /\ ~packet.ok
           /\ IsBreak(packet.kind)
           /\ pos' = packet.pos
    /\ calls' = calls + 1
    /\ ret' = RetOk(header[1], packets)
    /\ pc' = "done"
    /\ UNCHANGED <<input, src, fault, header, packets, starts, arg, out>>

\* Err(e) => return Err(e): the locals, `packets` among them, are dropped
LoopAbort ==
    /\ pc = "loop"
    /\ LET packet == PacketParse(pos)
       IN  /\ ~packet.ok
           /\ ~IsBreak(packet.kind)
           /\ pos' = packet.pos
           /\ ret' = RetErr(packet.kind)
    /\ calls' = calls + 1
    /\ header' = <<>>
    /\ packets' = <<>>
    /\ starts' = <<>>
    /\ pc' = "done"
    /\ UNCHANGED <<input, src, fault, arg, out>>

(***************************************************************************)
(* Byte sources: the layouts of the header and of a packet record.         *)
(***************************************************************************)
ToBigEndian(u) == <<u.hi \div 256, u.hi % 256, u.lo \div 256, u.lo % 256>>

EncodeHeader(magic, version, code) == magic \o ToBigEndian(version) \o ToBigEndian(code)

EncodePacket(r) ==
    ToBigEndian(r.original_length) \o ToBigEndian(r.included_length)
        \o ToBigEndian(r.flags) \o ToBigEndian(r.cumulative_drops)
        \o ToBigEndian(r.timestamp.hi) \o ToBigEndian(r.timestamp.lo) \o r.data

RECURSIVE EncodePackets(_)
EncodePackets(rs) ==
    IF rs = <<>> THEN <<>> ELSE EncodePacket(Head(rs)) \o EncodePackets(Tail(rs))

Rec(orig, incl, flags, drops, ts, data) ==
    [original_length |-> orig, included_length |-> incl, flags |-> flags,
     cumulative_drops |-> drops, timestamp |-> ts, data |-> data]

\* Complete records: included_length is the number of data bytes.
Records ==
    { Rec(U32(0, 0), U32(0, 0), U32(0, 0), U32(0, 0), [hi |-> U32(0, 0), lo |-> U32(0, 0)], <<>>),
      Rec(U32(0, 4), U32(0, 4), U32(0, 3), U32(0, 1), [hi |-> U32(0, 0), lo |-> U32(0, 1)],
          <<1, 1, 2, 0>>),
      Rec(U32(0, 1), U32(0, 2), U32(65535, 65533), U32(258, 772),
          [hi |-> U32(65535, 65535), lo |-> U32(65535, 65535)], <<9, 255>>),
      Rec(U32(1, 0), U32(0, 1), U32(32768, 2), U32(65535, 65535),
          [hi |-> U32(32768, 0), lo |-> U32(0, 0)], <<2>>) }

\* Records that declare more data than follows.
ShortRecords ==
    { Rec(U32(0, 5), U32(0, 5), U32(0, 0), U32(0, 0), [hi |-> U32(0, 0), lo |-> U32(0, 0)],
          <<1, 2>>),
      Rec(U32(0, 0), U32(65535, 65535), U32(0, 1), U32(0, 0),
          [hi |-> U32(0, 0), lo |-> U32(0, 0)], <<>>),
      Rec(U32(0, 0), U32(1, 0), U32(0, 2), U32(0, 0), [hi |-> U32(0, 0), lo |-> U32(0, 0)],
          <<7>>) }

Prefix(s, n) == SubSeq(s, 1, n)

\* Tails that are not a complete record: a proper prefix of a record, or a
\* record that declares more data than follows.
Tails ==
    UNION { { Prefix(EncodePacket(r), n) : n \in 0..(Len(EncodePacket(r)) - 1) } : r \in Records }
        \cup UNION { { Prefix(EncodePacket(r), n) : n \in 0..Len(EncodePacket(r)) } : r \in ShortRecords }

Magics ==
    {IDENTIFICATION_PATTERN}
        \cup { [IDENTIFICATION_PATTERN EXCEPT ![i] = (@ + 1) % 256] : i \in 1..8 }
        \cup { <<0, 0, 0, 0, 0, 0, 0, 0>> }

Versions == { U32(0, 1), U32(258, 772), U32(65535, 65535) }

Codes ==
    { U32(0, 0), U32(0, 1000), U32(0, 1001), U32(0, 1002), U32(0, 1003), U32(0, 1004),
      U32(0, 1005), U32(1, 0), U32(65535, 65535) }

FaultKinds == { "Other", "TimedOut" }

RecordSeqs == UNION { [1..k -> Records] : k \in 0..MaxRecords }

Start(in, bytes, flt) ==
    /\ input = in
    /\ src = bytes
    /\ fault = flt
    /\ pos = 0
    /\ pc = "header"
    /\ header = <<>>
    /\ packets = <<>>
    /\ starts = <<>>
    /\ calls = 0
    /\ ret = NoRet
    /\ arg = <<>>
    /\ out = <<>>

\* Any header, cut anywhere, no records.
InitHeaders ==
    \E magic \in Magics, version \in Versions, code \in Codes, n \in 0..16 :
        Start([magic |-> magic, version |-> version, code |-> code, recs |-> <<>>,
               tail |-> <<>>, cut |-> n],
              Prefix(EncodeHeader(magic, version, code), n), <<>>)

\* A valid header, complete records, then a tail that is not a complete record.
InitRecords ==
    \E version \in {U32(0, 1)}, code \in {U32(0, 1001), U32(0, 1002)},
       recs \in RecordSeqs, tail \in Tails :
        Start([magic |-> IDENTIFICATION_PATTERN, version |-> version, code |-> code,
               recs |-> recs, tail |-> tail, cut |-> 16],
              EncodeHeader(IDENTIFICATION_PATTERN, version, code)
                  \o EncodePackets(recs) \o tail, <<>>)

\* A valid header and complete records, on a reader that fails at one offset.
InitFaults ==
    \E recs \in RecordSeqs, kind \in FaultKinds :
        LET bytes == EncodeHeader(IDENTIFICATION_PATTERN, U32(0, 1), U32(0, 1002))
                         \o EncodePackets(recs)
        IN  \E at \in 0..(Len(bytes) - 1) :
                Start([magic |-> IDENTIFICATION_PATTERN, version |-> U32(0, 1),
                       code |-> U32(0, 1002), recs |-> recs, tail |-> <<>>, cut |-> 16],
                      bytes, <<[at |-> at, kind |-> kind]>>)

(***************************************************************************)
(* Packet flags.                                                           *)
(***************************************************************************)
\* PacketFlags.0 as u8: the low octet of the 32-bit flags
U32AsU8(u) == AsU8(u.lo)

DirectionFlagTryFrom(value) ==
    LET bit == BitAnd(value, 1)
    IN  IF bit = 0 THEN [ok |-> TRUE, val |-> "Sent"]
        ELSE IF bit = 1 THEN [ok |-> TRUE, val |-> "Received"]
        ELSE [ok |-> FALSE, kind |-> InvalidData]

\* A command flag read from bit 0.
CommandFlagTryFrom_NoShift(value) ==
    LET bit == BitAnd(value, 1)
    IN  IF bit = 0 THEN [ok |-> TRUE, val |-> "Data"]
        ELSE IF bit = 1 THEN [ok |-> TRUE, val |-> "CommandOrEvnet"]
        ELSE [ok |-> FALSE, kind |-> InvalidData]

CommandFlagTryFrom(value) ==
    LET bit == BitAnd(Shr(value, 1), 1)
    IN  IF bit = 0 THEN [ok |-> TRUE, val |-> "Data"]
        ELSE IF bit = 1 THEN [ok |-> TRUE, val |-> "CommandOrEvnet"]
        ELSE [ok |-> FALSE, kind |-> InvalidData]

(***************************************************************************)
(* hci::Command and hci::Opcode.                                           *)
(***************************************************************************)
PARAMS_START_BYTE == 3

ocf(opcode) == BitAnd(opcode, 1023)

ogf(opcode) == AsU8(Shr(opcode, 10))

Panic == [tag |-> "Panic"]

\* Parameters cut to the declared length.
CommandFrom_Truncates(data) ==
    IF Len(data) < 2 THEN Panic
    ELSE IF Len(data) < 3 THEN Panic
    ELSE [tag |-> "Ok",
          val |-> [opcode |-> LittleEndianU16(SubSeq(data, 1, 2)),
                   params_len |-> data[3],
                   params |-> SubSeq(data, PARAMS_START_BYTE + 1,
                                     IF PARAMS_START_BYTE + data[3] < Len(data)
                                     THEN PARAMS_START_BYTE + data[3] ELSE Len(data))]]

\* Command::from: each unwrap() panics when the reader runs out of bytes
CommandFrom(data) ==
    IF Len(data) < 2 THEN Panic
    ELSE IF Len(data) < 3 THEN Panic
    ELSE [tag |-> "Ok",
          val |-> [opcode |-> LittleEndianU16(SubSeq(data, 1, 2)),
                   params_len |-> data[3],
                   params |-> SubSeq(data, PARAMS_START_BYTE + 1, Len(data))]]

(***************************************************************************)
(* The UART dispatcher.                                                    *)
(***************************************************************************)
UartPacketTypeTryFromPrimitive(tp) ==
    IF tp = 1 THEN [ok |-> TRUE, val |-> "Cmd"]
    ELSE IF tp = 2 THEN [ok |-> TRUE, val |-> "Acl"]
    ELSE IF tp = 3 THEN [ok |-> TRUE, val |-> "Sco"]
    ELSE IF tp = 4 THEN [ok |-> TRUE, val |-> "Evt"]
    ELSE IF tp = 5 THEN [ok |-> TRUE, val |-> "Iso"]
    ELSE [ok |-> FALSE]

Todos == [tag |-> "Ok", val |-> [variant |-> "Todos"]]

InvalidPacketType == [tag |-> "Err", kind |-> InvalidData, msg |-> "invalid packet type"]

ParseUartPacket(packet) ==
    LET data == packet.data
    IN  IF data = <<>> THEN Todos
        ELSE LET uart_type == UartPacketTypeTryFromPrimitive(data[1])
        IN  IF ~uart_type.ok THEN InvalidPacketType
        ELSE IF uart_type.val = "Cmd"
        THEN LET cmd == CommandFrom(SubSeq(data, 2, Len(data)))
             IN  IF cmd.tag = "Panic" THEN Panic
                 ELSE [tag |-> "Ok", val |-> [variant |-> "Command", cmd |-> cmd.val]]
        ELSE Todos

(***************************************************************************)
(* The pure decoders, each applied to inputs drawn from bounded sets.      *)
(***************************************************************************)
Idle(in, a, at) ==
    /\ input = in
    /\ arg = a
    /\ pc = at
    /\ src = <<>>
    /\ fault = <<>>
    /\ pos = 0
    /\ header = <<>>
    /\ packets = <<>>
    /\ starts = <<>>
    /\ calls = 0
    /\ ret = NoRet
    /\ out = <<>>

main == <<input, src, fault, pos, header, packets, starts, calls, ret, arg>>

\* Command buffers: opcode octets, a length octet, parameters.
OpcodeOctets == { 0, 1, 2, 3, 252, 255 }
LengthOctets == { 0, 1, 5, 255 }
Params == UNION { [1..k -> {7, 200}] : k \in 0..MaxParams }

CommandBuffers ==
    { <<>> } \cup { <<a>> : a \in OpcodeOctets }
        \cup { <<a, b>> : a \in OpcodeOctets, b \in OpcodeOctets }
        \cup { <<a, b, l>> \o ps : a \in OpcodeOctets, b \in OpcodeOctets,
                                   l \in LengthOctets, ps \in Params }

PacketTypeOctets == { 0, 1, 2, 3, 4, 5, 6, 9, 255 }

PacketOf(data) ==
    [description |->
        [original_length |-> U32(0, Len(data)), included_length |-> U32(0, Len(data)),
         flags |-> U32(0, 0), cumulative_drops |-> U32(0, 0),
         timestamp |-> [hi |-> U32(0, 0), lo |-> U32(0, 0)]],
     data |-> data]

InitUart ==
    \/ \E b \in CommandBuffers : Idle(<<>>, b, "command")
    \/ Idle(<<>>, PacketOf(<<>>), "uart")
    \/ \E tp \in PacketTypeOctets, b \in CommandBuffers : Idle(<<>>, PacketOf(<<tp>> \o b), "uart")

\* Command::from(data)
CommandFromCall ==
    /\ pc = "command"
    /\ out' = CommandFrom(arg)
    /\ pc' = "command_done"
    /\ UNCHANGED main

\* parse_uart_packet(packet)
ParseUartPacketCall ==
    /\ pc = "uart"
    /\ out' = ParseUartPacket(arg)
    /\ pc' = "uart_done"
    /\ UNCHANGED main

NextUart == CommandFromCall \/ ParseUartPacketCall

SpecUart == InitUart /\ [][NextUart]_vars

FlagValues ==
    { U32(h, l) : h \in {0, 1, 32768, 65535},
                  l \in (0..7) \cup (252..259) \cup (65532..65535) }

InitFlags == \E f \in FlagValues : Idle(f, ToBigEndian(f), "flags")

\* let flags = reader.read_u32::<BigEndian>()?; let flags = PacketFlags(flags);
ReadFlags ==
    /\ pc = "flags"
    /\ out' = [raw |-> BigEndianU32(arg), direction |-> <<>>, command |-> <<>>]
    /\ pc' = "decode"
    /\ UNCHANGED main

\* DirectionFlag::try_from
DirectionFlagCall ==
    /\ pc = "decode"
    /\ out.direction = <<>>
    /\ out' = [out EXCEPT !.direction = <<DirectionFlagTryFrom(U32AsU8(out.raw))>>]
    /\ UNCHANGED <<main, pc>>

\* CommandFlag::try_from
CommandFlagCall ==
    /\ pc = "decode"
    /\ out.command = <<>>
    /\ out' = [out EXCEPT !.command = <<CommandFlagTryFrom(U32AsU8(out.raw))>>]
    /\ UNCHANGED <<main, pc>>

NextFlags == ReadFlags \/ DirectionFlagCall \/ CommandFlagCall

SpecFlags == InitFlags /\ [][NextFlags]_vars

LinkCodes ==
    { U32(h, l) : h \in {0, 1, 32768, 65535},
                  l \in (0..3) \cup (997..1008) \cup {65534, 65535} }

InitLink == \E code \in LinkCodes : Idle(code, code, "link")

\* DatalinkType::from(value)
DatalinkTypeFromCall ==
    /\ pc = "link"
    /\ out' = DatalinkTypeFrom(arg)
    /\ pc' = "link_done"
    /\ UNCHANGED main

NextLink == DatalinkTypeFromCall

SpecLink == InitLink /\ [][NextLink]_vars

Init == InitHeaders \/ InitRecords \/ InitFaults

Next == ParseHeader \/ LoopPush \/ LoopBreak \/ LoopAbort

Spec == Init /\ [][Next]_vars

(***************************************************************************)
(* What the decoder is expected to produce, stated from the byte source.   *)
(***************************************************************************)
\* The packet a complete record decodes to.
Parsed(r) ==
    [description |->
        [original_length |-> r.original_length, included_length |-> r.included_length,
         flags |-> r.flags, cumulative_drops |-> r.cumulative_drops,
         timestamp |-> r.timestamp],
     data |-> r.data]

\* The 32-bit code a DatalinkType stands for.
RawCode(dt) ==
    IF dt.tag \in {"Reserved", "Unassigned"} THEN dt.raw
    ELSE IF dt.tag = "UnencapsulatedHci" THEN U32Of(1001)
    ELSE IF dt.tag = "Uart" THEN U32Of(1002)
    ELSE IF dt.tag = "Bscp" THEN U32Of(1003)
    ELSE U32Of(1004)

\* Number of the source's complete records that end at or before offset `at`.
CompleteBefore(at) ==
    Cardinality({ k \in 1..Len(input.recs) :
                    16 + Len(EncodePackets(SubSeq(input.recs, 1, k))) <= at })

ValidMagic == Len(src) >= 8 /\ SubSeq(src, 1, 8) = <<98, 116, 115, 110, 111, 111, 112, 0>>

(***************************************************************************)
(* C1: on a source holding a valid header, k complete records and a tail   *)
(* that is not a complete record, Btsnoop::parse returns success with      *)
(* exactly those k records, in source order.                               *)
(***************************************************************************)
C1_TruncatedTailEndsLoop ==
    (pc = "done" /\ fault = <<>> /\ ValidMagic /\ Len(src) >= 16) =>
        /\ ret.tag = "Ok"
        /\ Len(ret.packets) = Len(input.recs)
        /\ \A i \in 1..Len(input.recs) : ret.packets[i] = Parsed(input.recs[i])

C1_Witness ==
    /\ pc = "done"
    /\ fault = <<>>
    /\ ret.tag = "Ok"
    /\ Len(ret.packets) = 2
    /\ Len(input.tail) = 3

(***************************************************************************)
(* C2: Command::from on a buffer shorter than 3 bytes returns an error     *)
(* value to its caller, also when reached through parse_uart_packet on     *)
(* data that is the byte 1 followed by 0, 1 or 2 bytes.                    *)
(***************************************************************************)
C2_ShortBufferIsError ==
    /\ (pc = "command_done" /\ Len(arg) < 3) => out.tag = "Err"
    /\ (pc = "uart_done" /\ arg.data # <<>> /\ arg.data[1] = 1 /\ Len(arg.data) < 4) =>
            out.tag = "Err"

(***************************************************************************)
(* C3 as stated: whenever the source holds fewer than 16 bytes, header     *)
(* parsing, and Btsnoop::parse with it, fails with UnexpectedEof.          *)
(***************************************************************************)
C3_ShortHeaderIsTruncated ==
    (pc = "done" /\ fault = <<>> /\ Len(src) < 16) => ret = RetErr(UnexpectedEof)

(***************************************************************************)
(* C3 amended: whenever the source holds fewer than 16 bytes,              *)
(* Btsnoop::parse fails and returns no Log; the failure is InvalidData     *)
(* when at least 8 bytes are held and they are not the identification      *)
(* pattern, and UnexpectedEof otherwise.                                   *)
(***************************************************************************)
C3_ShortHeaderFails ==
    (pc # "header" /\ fault = <<>> /\ Len(src) < 16) =>
        /\ pc = "done"
        /\ header = <<>>
        /\ ret = RetErr(IF Len(src) >= 8 /\ ~ValidMagic THEN InvalidData ELSE UnexpectedEof)

C3_Witness ==
    /\ pc = "done"
    /\ fault = <<>>
    /\ Len(src) = 0
    /\ ret = RetErr(UnexpectedEof)

(***************************************************************************)
(* C4: a 16-byte header that starts with the identification pattern parses *)
(* to the version and link type of bytes 8..12 and 12..16, big-endian; any *)
(* other first 8 bytes fail with InvalidData and produce no header.        *)
(***************************************************************************)
C4_HeaderRoundTrip ==
    (pc # "header" /\ fault = <<>> /\ Len(src) >= 16) =>
        IF ValidMagic
        THEN /\ Len(header) = 1
             /\ header[1].version = input.version
             /\ header[1].version.hi = src[9] * 256 + src[10]
             /\ header[1].version.lo = src[11] * 256 + src[12]
             /\ RawCode(header[1].datalink_type) = input.code
             /\ RawCode(header[1].datalink_type).hi = src[13] * 256 + src[14]
             /\ RawCode(header[1].datalink_type).lo = src[15] * 256 + src[16]
        ELSE /\ header = <<>>
             /\ pc = "done"
             /\ ret = RetErr(InvalidData)

C4_Witness ==
    /\ pc = "done"
    /\ ret.tag = "Ok"
    /\ ret.header.version = U32(258, 772)
    /\ ret.header.datalink_type = [tag |-> "Unassigned", raw |-> U32(65535, 65535)]

C6_DispatchIsTotal ==
    (pc = "uart_done") =>
        IF arg.data = <<>> THEN out = Todos
        ELSE IF arg.data[1] = 1
        THEN /\ out.tag = "Ok"
             /\ out.val.variant = "Command"
        ELSE IF arg.data[1] \in 2..5 THEN out = Todos
        ELSE out = InvalidPacketType

(***************************************************************************)
(* C7: for a command buffer b of 3 bytes or more, Command::from yields     *)
(* opcode b[0] + 256 * b[1], OCF = opcode mod 1024, OGF = opcode div 1024  *)
(* (at most 63), params_len = b[2], and params = the bytes of b from       *)
(* offset 3 to its end, whatever params_len says.                          *)
(***************************************************************************)
C7_CommandFields ==
    LET b == IF pc = "command_done" THEN arg
             ELSE IF pc = "uart_done" /\ arg.data # <<>> /\ arg.data[1] = 1
             THEN SubSeq(arg.data, 2, Len(arg.data))
             ELSE <<>>
        cmd == IF pc = "command_done" THEN out.val ELSE out.val.cmd
        raw == b[1] + 256 * b[2]
    IN  Len(b) >= 3 =>
            /\ out.tag = "Ok"
            /\ pc = "uart_done" => out.val.variant = "Command"
            /\ cmd.opcode = raw
            /\ ocf(cmd.opcode) = raw % 1024
            /\ ogf(cmd.opcode) = raw \div 1024
            /\ ogf(cmd.opcode) \in 0..63
            /\ ogf(cmd.opcode) * 1024 + ocf(cmd.opcode) = raw
            /\ cmd.params_len = b[3]
            /\ cmd.params = SubSeq(b, 4, Len(b))
            /\ Len(cmd.params) = Len(b) - 3

C7_Witness ==
    /\ pc = "uart_done"
    /\ arg.data = <<1, 1, 2, 0>>
    /\ out.tag = "Ok"
    /\ out.val.cmd = [opcode |-> 513, params_len |-> 0, params |-> <<>>]

(***************************************************************************)
(* C8: a failure of the reader other than end-of-source, met in the record *)
(* loop, is returned by Btsnoop::parse as it is; no Log is returned, the   *)
(* records parsed before it are dropped, and the failing Packet::parse is  *)
(* the last one made.                                                      *)
(***************************************************************************)
C8_OtherFailureAborts ==
    (pc = "done" /\ fault # <<>> /\ fault[1].at >= 16) =>
        /\ ret = RetErr(fault[1].kind)
        /\ packets = <<>>
        /\ header = <<>>
        /\ calls = CompleteBefore(fault[1].at) + 1
        /\ pos = fault[1].at

C8_Witness ==
    /\ pc = "done"
    /\ fault # <<>>
    /\ calls = 2
    /\ ret = RetErr("TimedOut")
    /\ packets = <<>>

(***************************************************************************)
(* C9: each successful Packet::parse consumes 24 + included_length bytes:  *)
(* the big-endian description, then included_length data bytes, which are  *)
(* the packet's data; included_length is not compared with                 *)
(* original_length.  The i-th record starts at 16 plus the sum of          *)
(* 24 + included_length over the earlier records.                          *)
(***************************************************************************)
C9_RecordExtent ==
    /\ Len(packets) <= Len(input.recs)
    /\ Len(starts) = Len(packets)
    /\ \A i \in 1..Len(packets) :
        LET d == packets[i].description
            n == Len(packets[i].data)
        IN  /\ d.included_length = U32Of(n)
            /\ packets[i].data = SubSeq(src, starts[i] + 25, starts[i] + 24 + n)
            /\ packets[i] = Parsed(input.recs[i])
            /\ starts[i] = IF i = 1 THEN 16
                           ELSE starts[i - 1] + 24 + Len(packets[i - 1].data)
            /\ (i = Len(packets) /\ pc = "loop") => pos = starts[i] + 24 + n

C9_Witness ==
    /\ pc = "loop"
    /\ Len(packets) = 2
    /\ starts[2] > 40
    /\ packets[2].description.original_length = U32(0, 1)
    /\ packets[2].description.included_length = U32(0, 2)
    /\ packets[2].data = <<9, 255>>

(***************************************************************************)
(* C10: every code 0..1000 maps to Reserved with the code, 1001..1004 to   *)
(* UnencapsulatedHci, Uart, Bscp, Serial, and every code from 1005 up to   *)
(* u32::MAX to Unassigned with the code.                                   *)
(***************************************************************************)
C10_DatalinkMapping ==
    (pc = "link_done") =>
        IF input.hi = 0 /\ input.lo <= 1000 THEN out = [tag |-> "Reserved", raw |-> input]
        ELSE IF input.hi = 0 /\ input.lo = 1001 THEN out = [tag |-> "UnencapsulatedHci"]
        ELSE IF input.hi = 0 /\ input.lo = 1002 THEN out = [tag |-> "Uart"]
        ELSE IF input.hi = 0 /\ input.lo = 1003 THEN out = [tag |-> "Bscp"]
        ELSE IF input.hi = 0 /\ input.lo = 1004 THEN out = [tag |-> "Serial"]
        ELSE out = [tag |-> "Unassigned", raw |-> input]

C10_Witness ==
    /\ pc = "link_done"
    /\ input = U32(65535, 65535)
    /\ out = [tag |-> "Unassigned", raw |-> U32(65535, 65535)]

====
